---- MODULE Spec2Model ----
(***************************************************************************)
(* Model of the NFS backup-store driver (src/nfs/nfs.go): initFunc, the    *)
(* mount negotiation in BackupStoreDriver.mount, and the accessors.        *)
(*                                                                         *)
(* Strings are sequences of one-character strings, so that Replace,        *)
(* TrimRight, concatenation and filepath.Join are computed as the code     *)
(* computes them.  An error value is the sequence of its message layers,   *)
(* outermost first, as errors.Wrapf renders it ("msg: cause"); the nil     *)
(* error is the empty sequence.                                            *)
(***************************************************************************)
EXTENDS Integers, Sequences, FiniteSets, TLC

\* Two callers of initFunc that share the host's mount table.
Procs == {"p1", "p2"}

\* How many calls of initFunc a run makes, over both callers.
MaxCalls == 2

\* The longest host string tried where the host is what matters.
MaxHostLen == 2

-----------------------------------------------------------------------------
(* Package-level values                                                    *)

KIND == <<"n", "f", "s">>

\* A variant that steps up through the minor versions instead of down.
MinorVersions_Ascending == <<"4.0", "4.1", "4.2">>

MinorVersions == <<"4.2", "4.1", "4.0">>

\* util.MountDir, the root under which every share is mounted.
MountDir == <<"/", "m">>

-----------------------------------------------------------------------------
(* String helpers of the standard library, on character sequences          *)

\* strings.Replace(s, old, new, -1) for one-character old and new.
Replace(s, old, new) == [i \in 1..Len(s) |-> IF s[i] = old THEN new ELSE s[i]]

\* A variant that strips at most one trailing occurrence (strings.TrimSuffix).
TrimRight_Once(s, c) ==
  IF s # <<>> /\ s[Len(s)] = c THEN SubSeq(s, 1, Len(s) - 1) ELSE s

RECURSIVE TrimRight(_, _)
\* strings.TrimRight(s, cutset) for a one-character cutset: strips every
\* trailing occurrence.
TrimRight(s, c) ==
  IF s # <<>> /\ s[Len(s)] = c THEN TrimRight(SubSeq(s, 1, Len(s) - 1), c) ELSE s

RECURSIVE SplitSlash(_)
\* The components of a path between its "/" separators (empty ones included).
SplitSlash(s) ==
  IF \A i \in 1..Len(s) : s[i] # "/"
  THEN <<s>>
  ELSE LET k == CHOOSE i \in 1..Len(s) :
                  s[i] = "/" /\ \A j \in 1..(i - 1) : s[j] # "/"
       IN <<SubSeq(s, 1, k - 1)>> \o SplitSlash(SubSeq(s, k + 1, Len(s)))

RECURSIVE JoinSlash(_)
\* Components joined by "/".
JoinSlash(cs) ==
  IF cs = <<>> THEN <<>>
  ELSE IF Len(cs) = 1 THEN cs[1]
  ELSE cs[1] \o <<"/">> \o JoinSlash(Tail(cs))

RECURSIVE CleanComps(_, _, _)
\* The component stack of filepath.Clean: "" and "." are dropped, ".." pops
\* the last kept component, is dropped at the root, and is kept at the front
\* of a relative path.
CleanComps(cs, out, rooted) ==
  IF cs = <<>> THEN out
  ELSE LET c == Head(cs)
           canPop == out # <<>> /\ out[Len(out)] # <<".", ".">>
       IN IF c = <<>> \/ c = <<".">> THEN CleanComps(Tail(cs), out, rooted)
          ELSE IF c = <<".", ".">>
               THEN IF canPop
                    THEN CleanComps(Tail(cs), SubSeq(out, 1, Len(out) - 1), rooted)
                    ELSE IF rooted THEN CleanComps(Tail(cs), out, rooted)
                    ELSE CleanComps(Tail(cs), Append(out, c), rooted)
               ELSE CleanComps(Tail(cs), Append(out, c), rooted)

\* filepath.Clean on a Unix path.
Clean(path) ==
  IF path = <<>> THEN <<".">>
  ELSE LET rooted == path[1] = "/"
           body   == JoinSlash(CleanComps(SplitSlash(path), <<>>, rooted))
       IN IF rooted THEN <<"/">> \o body
          ELSE IF body = <<>> THEN <<".">> ELSE body

RECURSIVE NonEmpty(_)
\* The non-empty elements of a list of strings, in order.
NonEmpty(elems) ==
  IF elems = <<>> THEN <<>>
  ELSE IF Head(elems) = <<>> THEN NonEmpty(Tail(elems))
  ELSE <<Head(elems)>> \o NonEmpty(Tail(elems))

\* filepath.Join: empty elements are ignored, the rest joined by "/" and
\* cleaned; the join of nothing is the empty string.
Join(elems) ==
  IF NonEmpty(elems) = <<>> THEN <<>> ELSE Clean(JoinSlash(NonEmpty(elems)))

-----------------------------------------------------------------------------
(* Errors                                                                  *)

\* The nil error.
NilErr == <<>>

\* errors.New / fmt.Errorf: an error of one message layer.  Every argument is
\* the list of strings it renders (a string renders as itself).
Errorf(format, args) == <<[fmt |-> format, args |-> args]>>

\* A variant that keeps only the new message and loses the cause.
Wrapf_DropsCause(err, format, args) ==
  IF err = NilErr THEN NilErr ELSE <<[fmt |-> format, args |-> args]>>

\* A variant that renders the cause in front of the new message.
Wrapf_CauseFirst(err, format, args) ==
  IF err = NilErr THEN NilErr ELSE err \o <<[fmt |-> format, args |-> args]>>

\* errors.Wrapf(err, format, args...): nil for a nil err, otherwise the new
\* message in front of the cause's message ("msg: cause").
Wrapf(err, format, args) ==
  IF err = NilErr THEN NilErr ELSE <<[fmt |-> format, args |-> args]>> \o err

-----------------------------------------------------------------------------
(* Inputs and collaborators                                                *)

\* Messages the collaborators fail with.
ParseErrs == {"invalid URL escape"}
MountErrs == {"timed out", "access denied"}
CheckErrs == {"stat failed"}
ListErrs  == {"no such directory"}

\* Values of u.Query()["nfsOptions"]: each raw value is its tokens, with ","
\* the separator between two options.
QueryValues ==
  { <<>>,
    << <<>> >>,
    << <<"nfsvers=4.1", ",", "soft">> >>,
    << <<"port=2049">> >> }

\* What url.Parse yields for a destination string: an error, or a URL with
\* its Scheme, Host, Path and the nfsOptions entry of its query (exist is the
\* second result of the map lookup).
URLs ==
  [ err    : {""},
    Scheme : {KIND, <<"s", "3">>},
    Host   : {<<>>, <<"f", ":">>, <<"a", ".", "b">>},
    Path   : {<<>>, <<"/", "e">>},
    exist  : {TRUE},
    values : QueryValues \ {<<>>} ]
  \cup
  [ err    : {""},
    Scheme : {KIND, <<"s", "3">>},
    Host   : {<<>>, <<"f", ":">>, <<"a", ".", "b">>},
    Path   : {<<>>, <<"/", "e">>},
    exist  : {FALSE},
    values : {<<>>} ]

Descriptors ==
  URLs \cup
  [ err : ParseErrs, Scheme : {<<>>}, Host : {<<>>}, Path : {<<>>},
    exist : {FALSE}, values : {<<>>} ]

\* The characters a host is made of here: a letter, the two characters the
\* sanitization touches, and the one it maps "." to.
HostChars == {"a", ".", "_", ":"}

\* Every host string of up to MaxHostLen characters.
HostStrings == UNION {[1..n -> HostChars] : n \in 0..MaxHostLen}

\* Remote paths, one of them with a ".." segment.
RemotePaths == {<<"/", "e">>, <<"/", ".", ".", "/", "e">>}

\* Parsed nfs destinations over all of HostStrings, with and without pinned
\* options.
WideDescriptors ==
  [ err : {""}, Scheme : {KIND}, Host : HostStrings, Path : RemotePaths,
    exist : {TRUE}, values : {<< <<"port=2049">> >>} ]
  \cup
  [ err : {""}, Scheme : {KIND}, Host : HostStrings, Path : RemotePaths,
    exist : {FALSE}, values : {<<>>} ]

RECURSIVE SplitTokens(_)
\* The options of one raw value: its tokens without the separators.
SplitTokens(v) ==
  IF v = <<>> THEN <<>>
  ELSE IF Head(v) = "," THEN SplitTokens(Tail(v))
  ELSE <<Head(v)>> \o SplitTokens(Tail(v))

RECURSIVE SplitMountOptions(_)
\* util.SplitMountOptions: the raw values split into one ordered option list.
SplitMountOptions(values) ==
  IF values = <<>> THEN <<>>
  ELSE SplitTokens(Head(values)) \o SplitMountOptions(Tail(values))

\* fmt.Sprintf("nfsvers=%v", version)
NfsVers(version) ==
  CASE version = "4.2" -> "nfsvers=4.2"
    [] version = "4.1" -> "nfsvers=4.1"
    [] version = "4.0" -> "nfsvers=4.0"

\* A variant that leaves the retry count out of the synthesized options.
VersionOptions_NoRetry(version) ==
  <<NfsVers(version), "actimeo=1", "soft", "timeo=30">>

\* The option list mount() synthesizes for a minor version.
VersionOptions(version) ==
  <<NfsVers(version), "actimeo=1", "soft", "timeo=30", "retry=2">>

-----------------------------------------------------------------------------
(* State                                                                   *)

VARIABLES
  pc,          \* where each caller is inside initFunc / mount
  calls,       \* initFunc calls made so far
  u,           \* the parsed destination of the current call
  b,           \* the BackupStoreDriver under construction
  idx,         \* position of mount()'s loop in MinorVersions
  retErr,      \* mount()'s accumulated error
  mounted,     \* what the idempotency check reported: "none", "yes", "no", "error"
  outcome,     \* how mount() ended: "none", "Mounted" (nil) or "Failed"
  listed,      \* how List("") ended: "none", "ok" or "error"
  ret,         \* what initFunc returned: [inst, err]
  checks,      \* EnsureMountPoint calls issued in the current call
  attempts,    \* MountWithTimeout calls issued in the current call, in order
  lists,       \* List("") calls issued in the current call
  got,         \* the last accessor call on each caller's driver: [op, arg, val]
  mountTable   \* the host's active mount points

vars == <<pc, calls, u, b, idx, retErr, mounted, outcome, listed, ret, checks,
          attempts, lists, got, mountTable>>

\* &BackupStoreDriver{}
ZeroDriver ==
  [destURL |-> <<>>, serverPath |-> <<>>, mountDir |-> <<>>, mountOptions |-> <<>>]

NoURL ==
  [err |-> "", Scheme |-> <<>>, Host |-> <<>>, Path |-> <<>>,
   exist |-> FALSE, values |-> <<>>]

\* initFunc has not returned.
NoRet == [inst |-> "pending", err |-> NilErr]

\* No accessor has been called on the driver.
NoCall == [op |-> "none", arg |-> <<>>, val |-> <<>>]

Init ==
  /\ pc = [p \in Procs |-> "idle"]
  /\ calls = 0
  /\ u = [p \in Procs |-> NoURL]
  /\ b = [p \in Procs |-> ZeroDriver]
  /\ idx = [p \in Procs |-> 1]
  /\ retErr = [p \in Procs |-> NilErr]
  /\ mounted = [p \in Procs |-> "none"]
  /\ outcome = [p \in Procs |-> "none"]
  /\ listed = [p \in Procs |-> "none"]
  /\ ret = [p \in Procs |-> NoRet]
  /\ checks = [p \in Procs |-> 0]
  /\ attempts = [p \in Procs |-> <<>>]
  /\ lists = [p \in Procs |-> 0]
  /\ got = [p \in Procs |-> NoCall]
  /\ mountTable = {}

-----------------------------------------------------------------------------
(* initFunc up to the call of mount()                                      *)

\* A variant whose cutset also holds "_", so trailing underscores go too.
SanitizeHost_TrimsUnderscores(host) ==
  TrimRight(TrimRight(Replace(host, ".", "_"), ":"), "_")

\* The host segment of the mount directory.
SanitizeHost(host) == TrimRight(Replace(host, ".", "_"), ":")

\* A variant that mounts a destination with pinned options in a directory of
\* its own.
Resolve_DirByOptions(d) ==
  [ serverPath   |-> d.Host \o d.Path,
    destURL      |-> KIND \o <<":", "/", "/">> \o d.Host \o d.Path,
    mountDir     |-> Join(<<MountDir, SanitizeHost(d.Host), d.Path,
                            IF d.exist THEN <<"o">> ELSE <<>>>>),
    mountOptions |-> IF d.exist THEN SplitMountOptions(d.values) ELSE <<>> ]

\* A variant in which a present nfsOptions key always pins: a value that
\* splits to nothing is kept as one empty option.
Resolve_KeyPinned(d) ==
  [ serverPath   |-> d.Host \o d.Path,
    destURL      |-> KIND \o <<":", "/", "/">> \o d.Host \o d.Path,
    mountDir     |-> Join(<<MountDir, SanitizeHost(d.Host), d.Path>>),
    mountOptions |-> IF d.exist
                     THEN IF SplitMountOptions(d.values) = <<>>
                          THEN <<"">>
                          ELSE SplitMountOptions(d.values)
                     ELSE <<>> ]

\* A variant whose destURL lacks the scheme prefix.
Resolve_NoScheme(d) ==
  [ serverPath   |-> d.Host \o d.Path,
    destURL      |-> d.Host \o d.Path,
    mountDir     |-> Join(<<MountDir, SanitizeHost(d.Host), d.Path>>),
    mountOptions |-> IF d.exist THEN SplitMountOptions(d.values) ELSE <<>> ]

\* The driver after lines 71-79: serverPath, destURL, mountDir and, when the
\* nfsOptions key exists, the split options.
Resolve(d) ==
  [ serverPath   |-> d.Host \o d.Path,
    destURL      |-> KIND \o <<":", "/", "/">> \o d.Host \o d.Path,
    mountDir     |-> Join(<<MountDir, SanitizeHost(d.Host), d.Path>>),
    mountOptions |-> IF d.exist THEN SplitMountOptions(d.values) ELSE <<>> ]

\* A variant that looks at the host before the scheme.
ValidateErr_HostFirst(d) ==
  IF d.err # "" THEN Errorf(d.err, <<>>)
  ELSE IF d.Host = <<>>
       THEN Errorf("NFS path must follow format: nfs://<server-address>:/<share-name>/", <<>>)
  ELSE IF d.Scheme # KIND
       THEN Errorf("BUG: Why dispatch %v to %v?", <<d.Scheme, KIND>>)
  ELSE IF d.Path = <<>>
       THEN Errorf("cannot find nfs path", <<>>)
  ELSE NilErr

\* The error of the validation at lines 56-69, NilErr when the descriptor
\* passes.
ValidateErr(d) ==
  IF d.err # "" THEN Errorf(d.err, <<>>)
  ELSE IF d.Scheme # KIND
       THEN Errorf("BUG: Why dispatch %v to %v?", <<d.Scheme, KIND>>)
  ELSE IF d.Host = <<>>
       THEN Errorf("NFS path must follow format: nfs://<server-address>:/<share-name>/", <<>>)
  ELSE IF d.Path = <<>>
       THEN Errorf("cannot find nfs path", <<>>)
  ELSE NilErr

\* initFunc is called with a destination out of D: a fresh driver, parse,
\* validate, resolve; it returns an error or goes on to mount().
InitFuncOn(p, D) ==
  /\ pc[p] \in {"idle", "done"}
  /\ calls < MaxCalls
  /\ \E d \in D :
       /\ u' = [u EXCEPT ![p] = d]
       /\ IF ValidateErr(d) # NilErr
          THEN /\ b' = [b EXCEPT ![p] = ZeroDriver]
               /\ ret' = [ret EXCEPT ![p] = [inst |-> "nil", err |-> ValidateErr(d)]]
               /\ pc' = [pc EXCEPT ![p] = "done"]
          ELSE /\ b' = [b EXCEPT ![p] = Resolve(d)]
               /\ ret' = [ret EXCEPT ![p] = NoRet]
               /\ pc' = [pc EXCEPT ![p] = "ensure"]
  /\ calls' = calls + 1
  /\ idx' = [idx EXCEPT ![p] = 1]
  /\ retErr' = [retErr EXCEPT ![p] = NilErr]
  /\ mounted' = [mounted EXCEPT ![p] = "none"]
  /\ outcome' = [outcome EXCEPT ![p] = "none"]
  /\ listed' = [listed EXCEPT ![p] = "none"]
  /\ checks' = [checks EXCEPT ![p] = 0]
  /\ attempts' = [attempts EXCEPT ![p] = <<>>]
  /\ lists' = [lists EXCEPT ![p] = 0]
  /\ got' = [got EXCEPT ![p] = NoCall]
  /\ UNCHANGED mountTable

\* initFunc called with any of the destinations of Descriptors.
InitFunc(p) == InitFuncOn(p, Descriptors)

-----------------------------------------------------------------------------
(* mount()                                                                 *)

\* A variant that hands the driver back together with the error.
MountFailed_ReturnsDriver(drv, err) ==
  [inst |-> "b",
   err  |-> Wrapf(err, "cannot mount nfs %v, options %v",
                  <<drv.serverPath, drv.mountOptions>>)]

\* initFunc's return when mount() returned err (lines 81-83).
MountFailed(drv, err) ==
  [inst |-> "nil",
   err  |-> Wrapf(err, "cannot mount nfs %v, options %v",
                  <<drv.serverPath, drv.mountOptions>>)]

\* One call of util.MountWithTimeout as the caller sees it; err is the
\* message it failed with, "" on success.
MountCall(drv, options, err) ==
  [source |-> drv.serverPath, target |-> drv.mountDir, fstype |-> "nfs4",
   options |-> options, sensitive |-> <<>>, err |-> err]

\* A variant that ignores the result of the idempotency check.
Selected_IgnoresMounted(isMounted, options) ==
  IF Len(options) > 0 THEN "pinned" ELSE "fallback"

\* A variant that steps through the versions whatever the caller supplied.
Selected_AlwaysFallback(isMounted, options) ==
  IF isMounted THEN "list" ELSE "fallback"

\* Where mount() goes after the idempotency check returned without error
\* (lines 101-108, 121): back to initFunc when the mount point is active,
\* otherwise to the single pinned attempt or to the version loop.
Selected(isMounted, options) ==
  IF isMounted THEN "list"
  ELSE IF Len(options) > 0 THEN "pinned" ELSE "fallback"

\* What util.EnsureMountPoint reports for a target when it does not fail:
\* whether the target is an active mount point.
IsMountPoint(target, table) == target \in table

\* A variant that holds a host-wide lock from the check to the end of the
\* mount attempts: no caller checks while another is between the two.
EnsureMountPoint_Locked(p) ==
  /\ \A q \in Procs \ {p} : pc[q] \notin {"pinned", "fallback"}
  /\ pc[p] = "ensure"
  /\ checks' = [checks EXCEPT ![p] = @ + 1]
  /\ \/ \E e \in CheckErrs :
          /\ mounted' = [mounted EXCEPT ![p] = "error"]
          /\ outcome' = [outcome EXCEPT ![p] = "Failed"]
          /\ ret' = [ret EXCEPT ![p] = MountFailed(b[p], Errorf(e, <<>>))]
          /\ pc' = [pc EXCEPT ![p] = "done"]
          /\ UNCHANGED retErr
     \/ LET isMounted == IsMountPoint(b[p].mountDir, mountTable)
            goto      == Selected(isMounted, b[p].mountOptions)
        IN /\ mounted' = [mounted EXCEPT ![p] = IF isMounted THEN "yes" ELSE "no"]
           /\ pc' = [pc EXCEPT ![p] = goto]
           /\ IF goto = "list"
              THEN /\ outcome' = [outcome EXCEPT ![p] = "Mounted"]
                   /\ UNCHANGED retErr
              ELSE /\ retErr' = [retErr EXCEPT ![p] =
                                   Errorf("cannot mount using NFSv4", <<>>)]
                   /\ UNCHANGED outcome
           /\ UNCHANGED ret
  /\ UNCHANGED <<calls, u, b, idx, listed, attempts, lists, got, mountTable>>

\* A variant that goes on to the mount attempts when the check failed.
EnsureMountPoint_ErrorIgnored(p) ==
  /\ pc[p] = "ensure"
  /\ checks' = [checks EXCEPT ![p] = @ + 1]
  /\ \/ \E e \in CheckErrs :
          /\ mounted' = [mounted EXCEPT ![p] = "error"]
          /\ pc' = [pc EXCEPT ![p] = Selected(FALSE, b[p].mountOptions)]
          /\ retErr' = [retErr EXCEPT ![p] =
                          Errorf("cannot mount using NFSv4", <<>>)]
          /\ UNCHANGED <<outcome, ret>>
     \/ LET isMounted == IsMountPoint(b[p].mountDir, mountTable)
            goto      == Selected(isMounted, b[p].mountOptions)
        IN /\ mounted' = [mounted EXCEPT ![p] = IF isMounted THEN "yes" ELSE "no"]
           /\ pc' = [pc EXCEPT ![p] = goto]
           /\ IF goto = "list"
              THEN /\ outcome' = [outcome EXCEPT ![p] = "Mounted"]
                   /\ UNCHANGED retErr
              ELSE /\ retErr' = [retErr EXCEPT ![p] =
                                   Errorf("cannot mount using NFSv4", <<>>)]
                   /\ UNCHANGED outcome
           /\ UNCHANGED ret
  /\ UNCHANGED <<calls, u, b, idx, listed, attempts, lists, got, mountTable>>

\* Lines 97-105: the idempotency check and the choice of the candidate list.
EnsureMountPoint(p) ==
  /\ pc[p] = "ensure"
  /\ checks' = [checks EXCEPT ![p] = @ + 1]
  /\ \/ \E e \in CheckErrs :
          /\ mounted' = [mounted EXCEPT ![p] = "error"]
          /\ outcome' = [outcome EXCEPT ![p] = "Failed"]
          /\ ret' = [ret EXCEPT ![p] = MountFailed(b[p], Errorf(e, <<>>))]
          /\ pc' = [pc EXCEPT ![p] = "done"]
          /\ UNCHANGED retErr
     \/ LET isMounted == IsMountPoint(b[p].mountDir, mountTable)
            goto      == Selected(isMounted, b[p].mountOptions)
        IN /\ mounted' = [mounted EXCEPT ![p] = IF isMounted THEN "yes" ELSE "no"]
           /\ pc' = [pc EXCEPT ![p] = goto]
           /\ IF goto = "list"
              THEN /\ outcome' = [outcome EXCEPT ![p] = "Mounted"]
                   /\ UNCHANGED retErr
              ELSE /\ retErr' = [retErr EXCEPT ![p] =
                                   Errorf("cannot mount using NFSv4", <<>>)]
                   /\ UNCHANGED outcome
           /\ UNCHANGED ret
  /\ UNCHANGED <<calls, u, b, idx, listed, attempts, lists, got, mountTable>>

\* Lines 108-120: the single attempt with the caller's options.
MountPinned(p) ==
  /\ pc[p] = "pinned"
  /\ \/ /\ attempts' = [attempts EXCEPT ![p] =
                          Append(@, MountCall(b[p], b[p].mountOptions, ""))]
        /\ mountTable' = mountTable \cup {b[p].mountDir}
        /\ outcome' = [outcome EXCEPT ![p] = "Mounted"]
        /\ pc' = [pc EXCEPT ![p] = "list"]
        /\ UNCHANGED <<ret, retErr>>
     \/ \E e \in MountErrs :
          LET wrapped == Wrapf(retErr[p], "nfsOptions=%v : %v",
                               <<b[p].mountOptions, <<e>>>>)
          IN /\ attempts' = [attempts EXCEPT ![p] =
                               Append(@, MountCall(b[p], b[p].mountOptions, e))]
             /\ retErr' = [retErr EXCEPT ![p] = wrapped]
             /\ outcome' = [outcome EXCEPT ![p] = "Failed"]
             /\ ret' = [ret EXCEPT ![p] = MountFailed(b[p], wrapped)]
             /\ pc' = [pc EXCEPT ![p] = "done"]
             /\ UNCHANGED mountTable
  /\ UNCHANGED <<calls, u, b, idx, mounted, listed, checks, lists, got>>

\* A variant that tries the same version again.
NextIdx_Stuck(i) == i

\* mount()'s loop position after a failed attempt: the next version, or past
\* the end of MinorVersions.
NextIdx(i) == i + 1

\* Lines 123-144: one iteration of the loop over MinorVersions.
MountFallback(p) ==
  /\ pc[p] = "fallback"
  /\ LET version == MinorVersions[idx[p]]
         drv     == [b[p] EXCEPT !.mountOptions = VersionOptions(version)]
     IN /\ b' = [b EXCEPT ![p] = drv]
        /\ \/ /\ attempts' = [attempts EXCEPT ![p] =
                                Append(@, MountCall(drv, drv.mountOptions, ""))]
              /\ mountTable' = mountTable \cup {drv.mountDir}
              /\ outcome' = [outcome EXCEPT ![p] = "Mounted"]
              /\ pc' = [pc EXCEPT ![p] = "list"]
              /\ UNCHANGED <<ret, retErr, idx>>
           \/ \E e \in MountErrs :
                LET wrapped == Wrapf(retErr[p], "vers=%s: %v", <<<<version>>, <<e>>>>)
                IN /\ attempts' = [attempts EXCEPT ![p] =
                                     Append(@, MountCall(drv, drv.mountOptions, e))]
                   /\ retErr' = [retErr EXCEPT ![p] = wrapped]
                   /\ UNCHANGED mountTable
                   /\ IF NextIdx(idx[p]) <= Len(MinorVersions)
                      THEN /\ idx' = [idx EXCEPT ![p] = NextIdx(@)]
                           /\ UNCHANGED <<pc, outcome, ret>>
                      ELSE /\ outcome' = [outcome EXCEPT ![p] = "Failed"]
                           /\ ret' = [ret EXCEPT ![p] = MountFailed(drv, wrapped)]
                           /\ pc' = [pc EXCEPT ![p] = "done"]
                           /\ UNCHANGED idx
  /\ UNCHANGED <<calls, u, mounted, listed, checks, lists, got>>

-----------------------------------------------------------------------------
(* initFunc after mount()                                                  *)

\* A variant that ignores the failure of List("").
ListFailed_Ignored(drv, err) == [inst |-> "b", err |-> NilErr]

\* initFunc's return when List("") returned err (lines 85-87).
ListFailed(drv, err) ==
  [inst |-> "nil",
   err  |-> Wrapf(err, "NFS path %v doesn't exist or is not a directory",
                  <<drv.serverPath>>)]

\* A variant that tears the mount down when the probe of its root fails.
ListRoot_Unmounts(p) ==
  /\ pc[p] = "list"
  /\ lists' = [lists EXCEPT ![p] = @ + 1]
  /\ \/ /\ listed' = [listed EXCEPT ![p] = "ok"]
        /\ ret' = [ret EXCEPT ![p] = [inst |-> "b", err |-> NilErr]]
        /\ UNCHANGED mountTable
     \/ \E e \in ListErrs :
          /\ listed' = [listed EXCEPT ![p] = "error"]
          /\ ret' = [ret EXCEPT ![p] = ListFailed(b[p], Errorf(e, <<>>))]
          /\ mountTable' = mountTable \ {b[p].mountDir}
  /\ pc' = [pc EXCEPT ![p] = "done"]
  /\ UNCHANGED <<calls, u, b, idx, retErr, mounted, outcome, checks, attempts,
                 got>>

\* Lines 85-91: the List("") probe of the mount root and the return.
ListRoot(p) ==
  /\ pc[p] = "list"
  /\ lists' = [lists EXCEPT ![p] = @ + 1]
  /\ \/ /\ listed' = [listed EXCEPT ![p] = "ok"]
        /\ ret' = [ret EXCEPT ![p] = [inst |-> "b", err |-> NilErr]]
     \/ \E e \in ListErrs :
          /\ listed' = [listed EXCEPT ![p] = "error"]
          /\ ret' = [ret EXCEPT ![p] = ListFailed(b[p], Errorf(e, <<>>))]
  /\ pc' = [pc EXCEPT ![p] = "done"]
  /\ UNCHANGED <<calls, u, b, idx, retErr, mounted, outcome, checks, attempts,
                 got, mountTable>>

-----------------------------------------------------------------------------
(* The accessors of a driver that initFunc returned                        *)

\* Path arguments given to LocalPath.
LogicalPaths ==
  { <<>>,
    <<"a">>,
    <<"a", "/", "b">>,
    <<"/", "a">>,
    <<".">>,
    <<"a", "/", ".", ".", "/", "b">>,
    <<".", ".", "/", "a">>,
    <<"a", "/", ".", ".", "/", ".", ".">> }

\* A variant that appends the argument to mountDir without joining.
LocalPathOf_Concat(drv, path) == drv.mountDir \o path

\* Line 159: filepath.Join(b.mountDir, path).
LocalPathOf(drv, path) == Join(<<drv.mountDir, path>>)

\* The accessors are called on a driver that initFunc returned.
Callable(p) == pc[p] = "done" /\ ret[p].inst = "b"

\* An accessor call on record: its name, argument and return value.
Call(op, arg, val) == [op |-> op, arg |-> arg, val |-> val]

\* Lines 150-152.
Kind(p) ==
  /\ Callable(p)
  /\ got' = [got EXCEPT ![p] = Call("Kind", <<>>, KIND)]
  /\ UNCHANGED <<pc, calls, u, b, idx, retErr, mounted, outcome, listed, ret,
                 checks, attempts, lists, mountTable>>

\* Lines 154-156.
GetURL(p) ==
  /\ Callable(p)
  /\ got' = [got EXCEPT ![p] = Call("GetURL", <<>>, b[p].destURL)]
  /\ UNCHANGED <<pc, calls, u, b, idx, retErr, mounted, outcome, listed, ret,
                 checks, attempts, lists, mountTable>>

\* Lines 158-160.
LocalPath(p) ==
  /\ Callable(p)
  /\ \E path \in LogicalPaths :
       got' = [got EXCEPT ![p] = Call("LocalPath", path, LocalPathOf(b[p], path))]
  /\ UNCHANGED <<pc, calls, u, b, idx, retErr, mounted, outcome, listed, ret,
                 checks, attempts, lists, mountTable>>

-----------------------------------------------------------------------------

Next ==
  \E p \in Procs :
    \/ InitFunc(p)
    \/ EnsureMountPoint(p)
    \/ MountPinned(p)
    \/ MountFallback(p)
    \/ ListRoot(p)

Spec == Init /\ [][Next]_vars

\* Every collaborator call returns, so a caller inside initFunc takes its next
\* step.
Running(p) ==
  EnsureMountPoint(p) \/ MountPinned(p) \/ MountFallback(p) \/ ListRoot(p)

\* One caller on its own, calling initFunc up to MaxCalls times.
SoloNext ==
  \/ InitFunc("p1")
  \/ EnsureMountPoint("p1")
  \/ MountPinned("p1")
  \/ MountFallback("p1")
  \/ ListRoot("p1")

SoloFairSpec == Init /\ [][SoloNext]_vars /\ WF_vars(Running("p1"))

\* initFunc up to the call of mount(), once by each caller, over every host
\* string: the derivation of serverPath, destURL and mountDir.
InitWide(p) ==
  /\ pc[p] = "idle"
  /\ InitFuncOn(p, WideDescriptors)

ResolveNext == \E p \in Procs : InitWide(p)

ResolveSpec == Init /\ [][ResolveNext]_vars

\* One caller and the use of the drivers it obtains.
DriverNext ==
  \/ SoloNext
  \/ Kind("p1")
  \/ GetURL("p1")
  \/ LocalPath("p1")

DriverSpec == Init /\ [][DriverNext]_vars

-----------------------------------------------------------------------------
(* Properties                                                              *)

\* The options the caller supplied to the current call of p (empty: none).
Supplied(p) == IF u[p].exist THEN SplitMountOptions(u[p].values) ELSE <<>>

\* The nfsvers option of the i-th fallback candidate, as declared.
DeclaredNfsVers == <<"nfsvers=4.2", "nfsvers=4.1", "nfsvers=4.0">>

\* The version strings in declared order.
DeclaredVersions == <<"4.2", "4.1", "4.0">>

\* C1: with no caller-supplied options and an inactive mount point, the mount
\* attempts are issued for 4.2, 4.1, 4.0 in this order, each at most once, a
\* version only after every earlier one failed, and none after a success.
C1_FallbackOrder ==
  \A p \in Procs :
    Supplied(p) = <<>> =>
      /\ Len(attempts[p]) <= 3
      /\ attempts[p] # <<>> => mounted[p] = "no"
      /\ \A i \in 1..Len(attempts[p]) :
           /\ attempts[p][i].options[1] = DeclaredNfsVers[i]
           /\ i < Len(attempts[p]) => attempts[p][i].err # ""

\* 4.2 and 4.1 failed and the attempt for 4.0 succeeded.
C1_Witness ==
  \E p \in Procs :
    /\ Supplied(p) = <<>>
    /\ Len(attempts[p]) = 3
    /\ attempts[p][3].err = ""

\* C2: when the idempotency check reports the mount point active, mount()
\* ends Mounted with no mount attempt and the driver's mountOptions are the
\* ones it was called with.
C2_AlreadyMounted ==
  \A p \in Procs :
    mounted[p] = "yes" =>
      /\ outcome[p] = "Mounted"
      /\ attempts[p] = <<>>
      /\ b[p].mountOptions = Supplied(p)

\* A call with pinned options found the mount point active.
C2_Witness ==
  \E p \in Procs :
    /\ mounted[p] = "yes"
    /\ outcome[p] = "Mounted"
    /\ Supplied(p) # <<>>

\* C3: with caller-supplied options and an inactive mount point, exactly one
\* mount attempt is issued, with those options verbatim and type nfs4; when
\* it fails no fallback version is tried and negotiation ends Failed.
C3_PinnedSingleAttempt ==
  \A p \in Procs :
    Supplied(p) # <<>> =>
      /\ Len(attempts[p]) <= 1
      /\ \A i \in 1..Len(attempts[p]) :
           /\ attempts[p][i].options = Supplied(p)
           /\ attempts[p][i].fstype = "nfs4"
      /\ (mounted[p] = "no" /\ pc[p] \in {"list", "done"}) => Len(attempts[p]) = 1
      /\ (attempts[p] # <<>> /\ attempts[p][1].err # "") =>
           outcome[p] = "Failed" /\ pc[p] = "done"

\* The single pinned attempt failed.
C3_Witness ==
  \E p \in Procs :
    /\ Supplied(p) # <<>>
    /\ Len(attempts[p]) = 1
    /\ attempts[p][1].err # ""
    /\ outcome[p] = "Failed"

\* C4: when negotiation ends Mounted through a mount attempt, the driver's
\* mountOptions are the options of the attempt that succeeded: the list
\* nfsvers=<v>, actimeo=1, soft, timeo=30, retry=2 of the succeeding version
\* in the fallback case, the caller's options in the pinned case.
C4_EffectiveOptions ==
  \A p \in Procs :
    (outcome[p] = "Mounted" /\ attempts[p] # <<>>) =>
      LET n    == Len(attempts[p])
          last == attempts[p][n]
      IN /\ last.err = ""
         /\ b[p].mountOptions = last.options
         /\ b[p].mountOptions =
              IF Supplied(p) = <<>>
              THEN <<DeclaredNfsVers[n], "actimeo=1", "soft", "timeo=30", "retry=2">>
              ELSE Supplied(p)

\* The fallback ended Mounted at 4.1, after 4.2 failed.
C4_Witness ==
  \E p \in Procs :
    /\ Supplied(p) = <<>>
    /\ outcome[p] = "Mounted"
    /\ Len(attempts[p]) = 2

\* The message layer that candidate i of p leaves in the error when it fails.
AttemptLayer(p, i) ==
  IF Supplied(p) = <<>>
  THEN [fmt  |-> "vers=%s: %v",
        args |-> <<<<DeclaredVersions[i]>>, <<attempts[p][i].err>>>>]
  ELSE [fmt  |-> "nfsOptions=%v : %v",
        args |-> <<Supplied(p), <<attempts[p][i].err>>>>]

\* err has the layer somewhere in its message.
Contains(err, layer) == \E k \in 1..Len(err) : err[k] = layer

\* C5: when every candidate failed, the error mount() returns and the error
\* initFunc returns both contain the label and the failure message of every
\* attempted candidate, not only of the last one.
C5_EveryAttemptReported ==
  \A p \in Procs :
    (pc[p] = "done" /\ outcome[p] = "Failed" /\ attempts[p] # <<>>) =>
      \A i \in 1..Len(attempts[p]) :
        /\ Contains(retErr[p], AttemptLayer(p, i))
        /\ Contains(ret[p].err, AttemptLayer(p, i))

\* All three versions failed, not all with the same message.
C5_Witness ==
  \E p \in Procs :
    /\ pc[p] = "done"
    /\ outcome[p] = "Failed"
    /\ Len(attempts[p]) = 3
    /\ attempts[p][1].err # attempts[p][3].err

RECURSIVE VersionTags(_)
\* The version tags of the "vers=" layers of an error, in the order its
\* message shows them.
VersionTags(err) ==
  IF err = <<>> THEN <<>>
  ELSE IF Head(err).fmt = "vers=%s: %v"
       THEN <<Head(err).args[1][1]>> \o VersionTags(Tail(err))
       ELSE VersionTags(Tail(err))

\* The fallback of p was exhausted.
FallbackExhausted(p) ==
  /\ pc[p] = "done"
  /\ outcome[p] = "Failed"
  /\ mounted[p] = "no"
  /\ Supplied(p) = <<>>

\* C6 as stated: after every fallback version failed, the aggregated error
\* has one entry per declared version, in declared order 4.2, 4.1, 4.0.
C6_DeclaredOrder ==
  \A p \in Procs :
    FallbackExhausted(p) =>
      /\ VersionTags(retErr[p]) = <<"4.2", "4.1", "4.0">>
      /\ VersionTags(ret[p].err) = <<"4.2", "4.1", "4.0">>

\* C6 amended: after every fallback version failed, the aggregated error has
\* exactly one entry per declared version, each tagged with its version
\* string, and its message shows them latest attempt first: 4.0, 4.1, 4.2,
\* then the base message.
C6_ReverseOrder ==
  \A p \in Procs :
    FallbackExhausted(p) =>
      /\ VersionTags(retErr[p]) = <<"4.0", "4.1", "4.2">>
      /\ VersionTags(ret[p].err) = <<"4.0", "4.1", "4.2">>
      /\ Len(retErr[p]) = 4
      /\ retErr[p][4] = [fmt |-> "cannot mount using NFSv4", args |-> <<>>]

\* Every fallback version failed.
C6_Witness ==
  \E p \in Procs : FallbackExhausted(p) /\ Len(attempts[p]) = 3

\* The destination parsed and has the nfs scheme, a host and a path.
WellFormed(d) ==
  /\ d.err = ""
  /\ d.Scheme = <<"n", "f", "s">>
  /\ d.Host # <<>>
  /\ d.Path # <<>>

\* C7: initFunc returns a driver instance exactly when the descriptor parsed
\* and validated, negotiation ended Mounted and List("") succeeded; on every
\* other path it returns no instance and an error.
C7_InstanceIffAllSucceeded ==
  \A p \in Procs :
    pc[p] = "done" =>
      /\ ret[p].inst \in {"b", "nil"}
      /\ ret[p].inst = "b" <=>
           (WellFormed(u[p]) /\ outcome[p] = "Mounted" /\ listed[p] = "ok")
      /\ ret[p].inst = "nil" <=> ret[p].err # NilErr

\* One call returned a driver and another failed at the idempotency check.
C7_Witness ==
  \E p, q \in Procs :
    /\ pc[p] = "done" /\ ret[p].inst = "b"
    /\ pc[q] = "done" /\ mounted[q] = "error" /\ ret[q].inst = "nil"

\* C8: once negotiation ended Mounted, by an attempt or by the
\* already-mounted short-circuit, initFunc goes on to List("") and returns
\* only after it; when List fails it returns the invalid-root error and no
\* instance.
C8_ListAfterMounted ==
  \A p \in Procs :
    outcome[p] = "Mounted" =>
      /\ pc[p] \in {"list", "done"}
      /\ pc[p] = "done" =>
           /\ lists[p] = 1
           /\ listed[p] \in {"ok", "error"}
           /\ listed[p] = "error" =>
                /\ ret[p].inst = "nil"
                /\ ret[p].err # NilErr
                /\ ret[p].err[1] =
                     [fmt  |-> "NFS path %v doesn't exist or is not a directory",
                      args |-> <<u[p].Host \o u[p].Path>>]

\* List failed after a successful attempt and after the short-circuit.
C8_Witness ==
  \E p, q \in Procs :
    /\ mounted[p] = "yes" /\ listed[p] = "error"
    /\ attempts[q] # <<>> /\ outcome[q] = "Mounted" /\ listed[q] = "error"

\* C9: a parsed descriptor with a scheme other than nfs, an empty host or an
\* empty path makes initFunc fail with the error of the first such defect in
\* the order scheme, host, path, with no mount-point check and no mount
\* attempt.
C9_ValidationFirst ==
  \A p \in Procs :
    (pc[p] = "done" /\ u[p].err = "" /\ ~WellFormed(u[p])) =>
      /\ ret[p].inst = "nil"
      /\ checks[p] = 0
      /\ mounted[p] = "none"
      /\ attempts[p] = <<>>
      /\ lists[p] = 0
      /\ ret[p].err =
           IF u[p].Scheme # <<"n", "f", "s">>
           THEN <<[fmt  |-> "BUG: Why dispatch %v to %v?",
                   args |-> <<u[p].Scheme, <<"n", "f", "s">>>>]>>
           ELSE IF u[p].Host = <<>>
           THEN <<[fmt  |-> "NFS path must follow format: nfs://<server-address>:/<share-name>/",
                   args |-> <<>>]>>
           ELSE <<[fmt |-> "cannot find nfs path", args |-> <<>>]>>

\* A descriptor with a wrong scheme and an empty host was rejected, and so
\* was one with the nfs scheme and an empty path.
C9_Witness ==
  \E p, q \in Procs :
    /\ pc[p] = "done" /\ u[p].err = ""
    /\ u[p].Scheme # <<"n", "f", "s">> /\ u[p].Host = <<>>
    /\ pc[q] = "done" /\ u[q].err = ""
    /\ u[q].Scheme = <<"n", "f", "s">> /\ u[q].Host # <<>> /\ u[q].Path = <<>>

\* C10: as long as every call of the mount capability returns, a negotiation
\* that was started ends Mounted or Failed, after at most one mount attempt
\* with pinned options and at most three otherwise.
C10_NegotiationEnds ==
  /\ \A p \in Procs :
       [](Len(attempts[p]) <= IF Supplied(p) # <<>> THEN 1 ELSE 3)
  /\ \A p \in Procs :
       (pc[p] \in {"ensure", "pinned", "fallback"})
         ~> (outcome[p] \in {"Mounted", "Failed"})

\* A negotiation ended Failed after the three fallback attempts.
C10_Witness ==
  \E p \in Procs :
    /\ outcome[p] = "Failed"
    /\ Supplied(p) = <<>>
    /\ Len(attempts[p]) = 3

\* C11: on a driver that initFunc returned, a call of Kind, GetURL or
\* LocalPath issues no mount-point check, no mount attempt and no List call
\* and changes no field of the driver; GetURL returns nfs:// followed by
\* host and path without the query, LocalPath(p) the join of mountDir and p.
C11_AccessorsPure ==
  [][\A p \in Procs :
       (got'[p] # got[p] /\ got'[p].op # "none") =>
         /\ ret[p].inst = "b"
         /\ UNCHANGED <<b, checks, attempts, lists, mountTable, ret, pc>>
         /\ got'[p].op = "Kind" => got'[p].val = <<"n", "f", "s">>
         /\ got'[p].op = "GetURL" =>
              got'[p].val = <<"n", "f", "s", ":", "/", "/">> \o u[p].Host \o u[p].Path
         /\ got'[p].op = "LocalPath" =>
              got'[p].val = Join(<<b[p].mountDir, got'[p].arg>>)]_vars

\* GetURL was called on a driver whose destination carried pinned options.
C11_Witness ==
  \E p \in Procs :
    /\ got[p].op = "GetURL"
    /\ Supplied(p) # <<>>

\* path is dir itself or lies below it.
Under(dir, path) ==
  \/ path = dir
  \/ /\ Len(path) > Len(dir)
     /\ SubSeq(path, 1, Len(dir)) = dir
     /\ path[Len(dir) + 1] = "/"

RECURSIVE ClimbsFrom(_, _)
\* Some ".." among the components cs has no ordinary component before it left
\* to cancel, depth being the number of ordinary components still open.
ClimbsFrom(cs, depth) ==
  IF cs = <<>> THEN FALSE
  ELSE IF Head(cs) = <<".", ".">>
       THEN depth = 0 \/ ClimbsFrom(Tail(cs), depth - 1)
  ELSE IF Head(cs) = <<>> \/ Head(cs) = <<".">>
       THEN ClimbsFrom(Tail(cs), depth)
  ELSE ClimbsFrom(Tail(cs), depth + 1)

\* The path argument climbs above its own start.
Climbs(path) == ClimbsFrom(SplitSlash(path), 0)

\* C12 as stated: for every path argument, LocalPath returns mountDir or a
\* path that has mountDir as a path prefix.
C12_AlwaysUnderMount ==
  \A p \in Procs :
    got[p].op = "LocalPath" => Under(b[p].mountDir, got[p].val)

\* C12 amended: for every path argument that does not climb above its own
\* start through ".." segments, LocalPath returns mountDir or a path that has
\* mountDir as a path prefix.
C12_UnderMountUnlessClimbing ==
  \A p \in Procs :
    (got[p].op = "LocalPath" /\ ~Climbs(got[p].arg)) =>
      Under(b[p].mountDir, got[p].val)

\* LocalPath was called with a/../b, whose ".." stays inside the argument.
C12_Witness ==
  \E p \in Procs :
    /\ got[p].op = "LocalPath"
    /\ got[p].arg = <<"a", "/", ".", ".", "/", "b">>
    /\ got[p].val = b[p].mountDir \o <<"/", "b">>

\* The host with every "." replaced by "_".
DotsToUnderscores(h) == [i \in 1..Len(h) |-> IF h[i] = "." THEN "_" ELSE h[i]]

\* s without one trailing ":" if it has one.
StripOneColon(s) ==
  IF Len(s) > 0 /\ s[Len(s)] = ":" THEN SubSeq(s, 1, Len(s) - 1) ELSE s

\* s without any of its trailing ":".
StripAllColons(s) ==
  LET ends == {k \in 0..Len(s) : \A i \in (k + 1)..Len(s) : s[i] = ":"}
      cut  == CHOOSE k \in ends : \A j \in ends : k <= j
  IN SubSeq(s, 1, cut)

\* initFunc has derived the driver's fields for p.
Resolved(p) == pc[p] # "idle" /\ WellFormed(u[p])

\* C13 as stated: the host segment of mountDir is the host with every "."
\* replaced by "_" and exactly one trailing ":" removed, if there is one.
C13_SingleColonStripped ==
  \A p \in Procs :
    Resolved(p) =>
      b[p].mountDir =
        Join(<<<<"/", "m">>, StripOneColon(DotsToUnderscores(u[p].Host)), u[p].Path>>)

\* C13 amended: the host segment of mountDir is the host with every "."
\* replaced by "_" and all of its trailing ":" removed.
C13_AllColonsStripped ==
  \A p \in Procs :
    Resolved(p) =>
      b[p].mountDir =
        Join(<<<<"/", "m">>, StripAllColons(DotsToUnderscores(u[p].Host)), u[p].Path>>)

\* A host with a "." and one trailing ":" was resolved to the segment "_".
C13_Witness ==
  \E p \in Procs :
    /\ Resolved(p)
    /\ u[p].Host = <<".", ":">>
    /\ u[p].Path = <<"/", "e">>
    /\ b[p].mountDir = <<"/", "m", "/", "_", "/", "e">>

\* The path has a ".." segment.
HasDotDot(path) ==
  \E i \in 1..Len(SplitSlash(path)) : SplitSlash(path)[i] = <<".", ".">>

\* C14 as stated: two different host strings with the same remote path get
\* different mount directories.
C14_DistinctHostsDistinctDirs ==
  \A p, q \in Procs :
    (Resolved(p) /\ Resolved(q) /\ u[p].Host # u[q].Host /\ u[p].Path = u[q].Path)
      => b[p].mountDir # b[q].mountDir

\* C14 amended: two host strings that still differ after every "." is
\* replaced by "_" and the trailing ":" are removed, with the same remote path
\* free of ".." segments, get different mount directories.
C14_DistinctSanitizedDistinctDirs ==
  \A p, q \in Procs :
    ( /\ Resolved(p) /\ Resolved(q)
      /\ StripAllColons(DotsToUnderscores(u[p].Host))
           # StripAllColons(DotsToUnderscores(u[q].Host))
      /\ u[p].Path = u[q].Path
      /\ ~HasDotDot(u[p].Path) )
      => b[p].mountDir # b[q].mountDir

\* The hosts a and a_ were resolved for the same path.
C14_Witness ==
  \E p, q \in Procs :
    /\ Resolved(p) /\ Resolved(q)
    /\ u[p].Host = <<"a">> /\ u[q].Host = <<"a", "_">>
    /\ u[p].Path = <<"/", "e">> /\ u[q].Path = <<"/", "e">>
    /\ b[p].mountDir # b[q].mountDir

\* What C14's amendment cannot leave out: with a ".." segment in the path,
\* hosts with different sanitized forms still get different directories.
C14_WithoutPathCondition ==
  \A p, q \in Procs :
    ( /\ Resolved(p) /\ Resolved(q)
      /\ StripAllColons(DotsToUnderscores(u[p].Host))
           # StripAllColons(DotsToUnderscores(u[q].Host))
      /\ u[p].Path = u[q].Path )
      => b[p].mountDir # b[q].mountDir

\* C15: serverPath and mountDir depend on host and path alone: two
\* initializations with the same host and path have the same serverPath and
\* mountDir, whatever their options, the mount table and the outcome of their
\* attempts, and no later step of initFunc changes them.
C15_DerivationDeterministic ==
  [][\A p, q \in Procs :
       /\ (Resolved(p) /\ Resolved(q)
             /\ u[p].Host = u[q].Host /\ u[p].Path = u[q].Path)
            => /\ b[p].serverPath = b[q].serverPath
               /\ b[p].mountDir = b[q].mountDir
       /\ (Resolved(p) /\ u'[p] = u[p] /\ calls' = calls)
            => /\ b'[p].serverPath = b[p].serverPath
               /\ b'[p].mountDir = b[p].mountDir]_vars

\* Two initializations of the same host and path, one with pinned options
\* and one without, one ended Failed and the other Mounted by the fallback.
C15_Witness ==
  \E p, q \in Procs :
    /\ Resolved(p) /\ Resolved(q)
    /\ u[p].Host = u[q].Host /\ u[p].Path = u[q].Path
    /\ Supplied(p) # <<>> /\ Supplied(q) = <<>>
    /\ outcome[p] = "Failed" /\ outcome[q] = "Mounted"
    /\ b[q].mountDir \in mountTable

\* C16: initializations of the same host and path are not serialized.  After
\* one caller's check reported the mount point inactive and before it has
\* mounted, another caller's check can report the same; and a caller past its
\* check issues its mount attempt although another has mounted the same
\* mountDir meanwhile.
C16_NotSerialized ==
  \A p, q \in Procs :
    (p # q /\ Resolved(p) /\ Resolved(q) /\ b[p].mountDir = b[q].mountDir) =>
      /\ ( /\ pc[q] \in {"pinned", "fallback"}
           /\ pc[p] = "ensure"
           /\ b[p].mountDir \notin mountTable )
           => ENABLED (EnsureMountPoint(p) /\ mounted'[p] = "no")
      /\ ( /\ pc[p] \in {"pinned", "fallback"}
           /\ b[p].mountDir \in mountTable )
           => ENABLED ( /\ MountPinned(p) \/ MountFallback(p)
                        /\ Len(attempts'[p]) = Len(attempts[p]) + 1 )

\* Both callers found the mount point inactive and then both mounted the same
\* mountDir successfully.
C16_Witness ==
  \E p, q \in Procs :
    /\ p # q
    /\ mounted[p] = "no" /\ mounted[q] = "no"
    /\ attempts[p] # <<>> /\ attempts[q] # <<>>
    /\ attempts[p][Len(attempts[p])].err = ""
    /\ attempts[q][Len(attempts[q])].err = ""
    /\ attempts[p][1].target = attempts[q][1].target

\* The idempotency check of caller p returns in this step, made in a state
\* where p's mountDir is an active mount point.
ChecksActive(p) ==
  /\ pc[p] = "ensure" /\ pc'[p] # "ensure"
  /\ b[p].mountDir \in mountTable

\* A mount attempt of caller p succeeds in this step.
AttemptSucceeds(p) ==
  /\ Len(attempts'[p]) = Len(attempts[p]) + 1
  /\ attempts'[p][Len(attempts'[p])].err = ""

\* C17 as stated: no step unmounts, a successful attempt leaves mountDir
\* active, and every later initialization of the same mountDir takes the
\* already-mounted short-circuit with zero mount attempts.
C17_AlwaysShortCircuits ==
  [][/\ mountTable \subseteq mountTable'
     /\ \A p \in Procs :
          /\ AttemptSucceeds(p) => b'[p].mountDir \in mountTable'
          /\ ChecksActive(p) =>
               /\ mounted'[p] = "yes"
               /\ pc'[p] = "list" /\ outcome'[p] = "Mounted"
               /\ attempts'[p] = <<>>]_vars

\* C17: no step unmounts and a successful attempt leaves mountDir active, even
\* through a failed List; a later initialization of the same mountDir makes
\* zero mount attempts: it takes the already-mounted short-circuit, unless its
\* own idempotency check returns an error, and then it fails at once.
C17_ShortCircuitsOrCheckFails ==
  [][/\ mountTable \subseteq mountTable'
     /\ \A p \in Procs :
          /\ AttemptSucceeds(p) => b'[p].mountDir \in mountTable'
          /\ ChecksActive(p) =>
               /\ mounted'[p] \in {"yes", "error"}
               /\ mounted'[p] = "yes" =>
                    pc'[p] = "list" /\ outcome'[p] = "Mounted"
               /\ mounted'[p] = "error" =>
                    pc'[p] = "done" /\ outcome'[p] = "Failed"
               /\ attempts'[p] = <<>>
          /\ (mounted[p] = "yes" /\ mounted'[p] = "yes") =>
               attempts'[p] = <<>>]_vars

\* One caller mounted and then failed the List probe; the other, initialized
\* for the same mountDir afterwards, ended on the short-circuit with no
\* attempt.
C17_Witness ==
  \E p, q \in Procs :
    /\ p # q
    /\ attempts[q] # <<>> /\ attempts[q][Len(attempts[q])].err = ""
    /\ listed[q] = "error" /\ pc[q] = "done" /\ ret[q].inst = "nil"
    /\ b[p].mountDir = b[q].mountDir
    /\ mounted[p] = "yes" /\ attempts[p] = <<>> /\ pc[p] = "done"
    /\ b[p].mountDir \in mountTable

\* C18: when the idempotency check itself returns an error, mount() returns
\* that error at once: no mount attempt is made, mountOptions is what the
\* caller supplied, List is not called, and initFunc returns no instance,
\* with the check's error wrapped once.
C18_CheckErrorFailsAtOnce ==
  \A p \in Procs :
    mounted[p] = "error" =>
      /\ pc[p] = "done" /\ outcome[p] = "Failed"
      /\ checks[p] = 1 /\ attempts[p] = <<>> /\ lists[p] = 0
      /\ b[p].mountOptions = Supplied(p)
      /\ ret[p].inst = "nil"
      /\ Len(ret[p].err) = 2
      /\ ret[p].err[1].fmt = "cannot mount nfs %v, options %v"
      /\ ret[p].err[2].fmt \in CheckErrs

\* The check failed for a caller that supplied options of its own.
C18_Witness ==
  \E p \in Procs :
    /\ mounted[p] = "error"
    /\ Supplied(p) # <<>>
    /\ ret[p].inst = "nil" /\ ret[p].err # NilErr

\* C19: whether mount() makes the single pinned attempt or steps through the
\* versions depends on the split option list being empty, not on the
\* nfsOptions key being present: with an empty list, key present or not, the
\* attempts are the fallback candidates 4.2, 4.1, 4.0 in order; with a
\* non-empty list there is at most one attempt, with that list.
C19_BranchByEmptiness ==
  \A p \in Procs :
    (Resolved(p) /\ mounted[p] = "no") =>
      IF Supplied(p) = <<>>
      THEN /\ pc[p] # "pinned"
           /\ Len(attempts[p]) <= Len(DeclaredVersions)
           /\ \A i \in 1..Len(attempts[p]) :
                attempts[p][i].options = VersionOptions(DeclaredVersions[i])
      ELSE /\ pc[p] # "fallback"
           /\ Len(attempts[p]) <= 1
           /\ \A i \in 1..Len(attempts[p]) :
                attempts[p][i].options = Supplied(p)

\* The key is present with a value that splits to nothing, and all three
\* versions were tried.
C19_Witness ==
  \E p \in Procs :
    /\ Resolved(p) /\ mounted[p] = "no"
    /\ u[p].exist /\ u[p].values # <<>> /\ Supplied(p) = <<>>
    /\ Len(attempts[p]) = Len(DeclaredVersions)
    /\ attempts[p][1].options[1] = "nfsvers=4.2"

====
